---------------------------- MODULE Spec2Model ----------------------------
(***************************************************************************)
(* Model of pic32/hwrng.c: the hardware random number generator front end  *)
(* (FIR decimation of the ADC buffer, statistical qualification of the     *)
(* sample pool, and the consumer operation hardwareRandom32Bytes).         *)
(*                                                                         *)
(* TLC integers are 32 bits wide, so every quantity of the program that    *)
(* can exceed 31 bits (the 32-bit accumulator of firFilter before it      *)
(* wraps, unsigned 32-bit index arithmetic, the 64-bit products inside     *)
(* fix16_mul) is carried in 16-bit halves or as base-256 digit sequences.  *)
(***************************************************************************)
EXTENDS Integers, Sequences, FiniteSets, TLC

(***************************************************************************)
(* Bounds of the model.                                                    *)
(***************************************************************************)
\* Number of ADC acquisitions (blocks) per pool:
\* SAMPLE_COUNT / DECIMATED_SAMPLE_BUFFER_SIZE.
PoolBlocks == 2
\* Largest PSD_THRESHOLD_REPETITIONS the bandwidth estimate is checked for.
MaxRepetitions == 2

(***************************************************************************)
(* Program constants.                                                      *)
(***************************************************************************)
OVERSAMPLE_RATIO == 2
FILTER_HALF_ORDER == 8
FILTER_ORDER == (2 * FILTER_HALF_ORDER) + 1
\* adc.h is not part of the sources; a power of two, scaled down.
ADC_SAMPLE_BUFFER_SIZE == 32
DECIMATED_SAMPLE_BUFFER_SIZE == ADC_SAMPLE_BUFFER_SIZE \div OVERSAMPLE_RATIO
\* hwrng_limits.h is not part of the sources; a multiple of
\* DECIMATED_SAMPLE_BUFFER_SIZE and of 2 * FFT_SIZE.
SAMPLE_COUNT == PoolBlocks * DECIMATED_SAMPLE_BUFFER_SIZE
FFT_SIZE == 8

\* The table with the sign of one coefficient lost.
fir_lowpass_coefficients_sign_slip ==
    << -123, 202, 711, 0, -2681, -2929, 5309, 19161,
       26236,
       19161, 5309, 2929, -2681, 0, 711, 202, -123 >>
fir_lowpass_coefficients ==
    << -123, 202, 711, 0, -2681, -2929, 5309, 19161,
       26236,
       19161, 5309, -2929, -2681, 0, 711, 202, -123 >>

(***************************************************************************)
(* Machine arithmetic.                                                     *)
(***************************************************************************)
Pow16 == 2 ^ 16
Pow15 == 2 ^ 15
INT16_MIN == -(2 ^ 15)
INT16_MAX == (2 ^ 15) - 1

\* Bitwise AND of two naturals below 2^16, bit by bit.
RECURSIVE BitAnd(_, _)
BitAnd(a, b) ==
    IF a = 0 \/ b = 0 THEN 0
    ELSE ((a % 2) * (b % 2)) + (2 * BitAnd(a \div 2, b \div 2))

\* An unsigned int (32 bits) as its two 16-bit halves.
U32(n) == [hi |-> (n \div Pow16) % Pow16, lo |-> n % Pow16]

\* a - b on unsigned int: wraps modulo 2^32.
U32Sub(a, b) ==
    LET d == a.lo - b.lo
        borrow == IF d < 0 THEN 1 ELSE 0
    IN  [hi |-> (a.hi - b.hi - borrow) % Pow16, lo |-> d % Pow16]

\* a + b on unsigned int: wraps modulo 2^32.
U32Add(a, b) ==
    LET s == a.lo + b.lo
    IN  [hi |-> (a.hi + b.hi + (s \div Pow16)) % Pow16, lo |-> s % Pow16]

\* a & b on unsigned int.
U32And(a, b) == [hi |-> BitAnd(a.hi, b.hi), lo |-> BitAnd(a.lo, b.lo)]

\* The value of an unsigned int known to be below 2^16.
U32Low(a) == a.lo

\* A signed quantity hi * 2^16 + lo with 0 <= lo < 2^16 and hi unbounded:
\* the mathematical value of a sum that may not fit 32 bits.
WideZero == [hi |-> 0, lo |-> 0]
WideAdd(w, p) ==
    LET s == w.lo + p
    IN  [hi |-> w.hi + (s \div Pow16), lo |-> s % Pow16]
FitsInt32(w) == w.hi >= INT16_MIN /\ w.hi <= INT16_MAX
\* The int32_t holding w when it fits.
WideToInt(w) == (w.hi * Pow16) + w.lo
\* w reduced modulo 2^32 into the int32_t range (two's complement wrap).
WideWrap(w) == [hi |-> ((w.hi - INT16_MIN) % Pow16) + INT16_MIN, lo |-> w.lo]

\* x >> n on a signed int (arithmetic shift, as the compiler for the target
\* implements it).
ShiftRight(x, n) == x \div (2 ^ n)

\* Conversion of an int32_t to uint16_t (the store into samples[]).
ToUint16(x) == x % Pow16

(***************************************************************************)
(* firFilter (lines 363-380) and the decimation loop of                    *)
(* fillAndTestSamplesArray (lines 415-422).                                *)
(***************************************************************************)
\* index = (base_index + i) & (ADC_SAMPLE_BUFFER_SIZE - 1)
FirIndex(base_index, i) ==
    U32Low(U32And(U32Add(base_index, U32(i)), U32(ADC_SAMPLE_BUFFER_SIZE - 1)))

\* base_index = ((j * OVERSAMPLE_RATIO) - FILTER_HALF_ORDER)
\*              & (ADC_SAMPLE_BUFFER_SIZE - 1), on unsigned int.
BaseIndex(j) ==
    U32And(U32Sub(U32(j * OVERSAMPLE_RATIO), U32(FILTER_HALF_ORDER)),
           U32(ADC_SAMPLE_BUFFER_SIZE - 1))

\* The mathematical value of sum after the first n passes of the loop
\* (hi, lo), and whether a "sum += ..." overflowed int32_t on the way.
RECURSIVE FirAcc(_, _, _)
FirAcc(adc, base_index, n) ==
    IF n = 0 THEN [hi |-> 0, lo |-> 0, overflowed |-> FALSE]
    ELSE LET before == FirAcc(adc, base_index, n - 1)
             after == WideAdd(before,
                              adc[FirIndex(base_index, n - 1)]
                                  * fir_lowpass_coefficients[n])
         IN  [hi |-> after.hi, lo |-> after.lo,
              overflowed |-> before.overflowed \/ ~FitsInt32(after)]

FirOverflows(adc, base_index, n) == FirAcc(adc, base_index, n).overflowed

\* The result without the rounding term.
FirRoundTruncating(sum) == ShiftRight(sum, 16)
\* (sum >> 16) + ((sum >> 15) & 1)
FirRound(sum) == ShiftRight(sum, 16) + (ShiftRight(sum, 15) % 2)

\* Signed overflow is undefined in C: the build resolves it by wrapping
\* (two's complement) or by pinning the sum at a limit of int32_t.
OverflowOutcomes == {"wrap", "max", "min"}
FirSum(adc, base_index, ub) ==
    LET w == FirAcc(adc, base_index, FILTER_ORDER)
    IN  IF ~w.overflowed THEN WideToInt(w)
        ELSE IF ub = "wrap" THEN WideToInt(WideWrap(w))
        ELSE IF ub = "max" THEN WideToInt([hi |-> INT16_MAX, lo |-> Pow16 - 1])
        ELSE WideToInt([hi |-> INT16_MIN, lo |-> 0])

firFilter(adc, base_index, ub) == FirRound(FirSum(adc, base_index, ub))

\* One block of the pool: samples[i + j] = filtered_sample for every j.
FilterBlock(adc, ub) ==
    [j \in 0..(DECIMATED_SAMPLE_BUFFER_SIZE - 1) |->
        ToUint16(firFilter(adc, BaseIndex(j), ub))]

(***************************************************************************)
(* Contents of the ADC buffer (uint16_t adc_sample_buffer[]), as written   *)
(* by the ADC between beginFillingADCBuffer() and isADCBufferFull().       *)
(***************************************************************************)
AdcIndices == 0..(ADC_SAMPLE_BUFFER_SIZE - 1)
\* Tap of the filter that a buffer position faces when the filter is
\* centred on position pos.
TapAt(k, pos) == ((k - pos) + FILTER_HALF_ORDER) % ADC_SAMPLE_BUFFER_SIZE
AdcPattern(kind, pos, amp) ==
    [k \in AdcIndices |->
        CASE kind = "const" -> amp
          [] kind = "impulse" -> IF k = pos THEN amp ELSE 0
          [] kind = "ramp" -> (amp + (k * 37)) % Pow16
          [] kind = "pos" ->
                IF TapAt(k, pos) < FILTER_ORDER
                   /\ fir_lowpass_coefficients[TapAt(k, pos) + 1] > 0
                THEN amp ELSE 0
          [] kind = "neg" ->
                IF TapAt(k, pos) < FILTER_ORDER
                   /\ fir_lowpass_coefficients[TapAt(k, pos) + 1] < 0
                THEN amp ELSE 0]

(***************************************************************************)
(* Natural numbers of any size, as little-endian sequences of base-256     *)
(* digits (used for the 64-bit products of fix16_mul and for exact         *)
(* comparisons of products of Q16.16 values).                              *)
(***************************************************************************)
RECURSIVE BigNat(_)
BigNat(n) == IF n = 0 THEN << >> ELSE << n % 256 >> \o BigNat(n \div 256)

BigHead(x) == IF x = << >> THEN 0 ELSE Head(x)
BigTail(x) == IF x = << >> THEN << >> ELSE Tail(x)

RECURSIVE BigAddC(_, _, _)
BigAddC(x, y, c) ==
    IF x = << >> /\ y = << >>
    THEN (IF c = 0 THEN << >> ELSE << c >>)
    ELSE LET t == BigHead(x) + BigHead(y) + c
         IN  << t % 256 >> \o BigAddC(BigTail(x), BigTail(y), t \div 256)
BigAdd(x, y) == BigAddC(x, y, 0)

RECURSIVE BigMulDigit(_, _, _)
BigMulDigit(x, d, c) ==
    IF x = << >> THEN (IF c = 0 THEN << >> ELSE << c >>)
    ELSE LET t == (Head(x) * d) + c
         IN  << t % 256 >> \o BigMulDigit(Tail(x), d, t \div 256)

RECURSIVE BigMul(_, _)
BigMul(x, y) ==
    IF y = << >> THEN << >>
    ELSE BigAdd(BigMulDigit(x, Head(y), 0), << 0 >> \o BigMul(x, Tail(y)))

RECURSIVE BigNorm(_)
BigNorm(x) ==
    IF x = << >> THEN << >>
    ELSE IF x[Len(x)] = 0 THEN BigNorm(SubSeq(x, 1, Len(x) - 1))
    ELSE x

RECURSIVE BigLessN(_, _)
BigLessN(x, y) ==
    IF Len(x) # Len(y) THEN Len(x) < Len(y)
    ELSE IF x = << >> THEN FALSE
    ELSE IF x[Len(x)] # y[Len(y)] THEN x[Len(x)] < y[Len(y)]
    ELSE BigLessN(SubSeq(x, 1, Len(x) - 1), SubSeq(y, 1, Len(y) - 1))
BigLess(x, y) == BigLessN(BigNorm(x), BigNorm(y))
BigLeq(x, y) == ~BigLess(y, x)

\* x div 2^16.
BigShr16(x) == IF Len(x) <= 2 THEN << >> ELSE SubSeq(x, 3, Len(x))

\* The value of a number below 2^31.
RECURSIVE BigToInt(_)
BigToInt(x) == IF x = << >> THEN 0 ELSE Head(x) + (256 * BigToInt(Tail(x)))

(***************************************************************************)
(* The fixed-point library (fix16.h, fix16.c): Q16.16 in an int32_t.       *)
(* Every operation yields its value and whether it raised the sticky       *)
(* flag fix16_error_occurred.                                              *)
(***************************************************************************)
fix16_zero == 0
fix16_one == Pow16
fix16_maximum == 2147483647
fix16_minimum == (-2147483647) - 1
Abs(x) == IF x < 0 THEN -x ELSE x

\* |a| of an int32_t as a natural number.
BigAbs(a) ==
    IF a = fix16_minimum THEN BigAdd(BigNat(fix16_maximum), << 1 >>)
    ELSE BigNat(Abs(a))

\* Rounding, saturating multiplication.
fix16_mul(a, b) ==
    LET negative == (a < 0) # (b < 0)
        product == BigMul(BigAbs(a), BigAbs(b))
        rounded == BigShr16(BigAdd(product, BigNat(Pow15)))
        fits == BigLeq(rounded, BigNat(fix16_maximum))
    IN  IF fits
        THEN [val |-> IF negative THEN -BigToInt(rounded) ELSE BigToInt(rounded),
              err |-> FALSE]
        ELSE [val |-> IF negative THEN fix16_minimum ELSE fix16_maximum,
              err |-> TRUE]

\* Saturating addition.
fix16_add(a, b) ==
    LET lo == (a % Pow16) + (b % Pow16)
        w == [hi |-> (a \div Pow16) + (b \div Pow16) + (lo \div Pow16),
              lo |-> lo % Pow16]
    IN  IF FitsInt32(w) THEN [val |-> WideToInt(w), err |-> FALSE]
        ELSE [val |-> IF w.hi < 0 THEN fix16_minimum ELSE fix16_maximum,
              err |-> TRUE]

fix16_from_int(n) == n * fix16_one

\* The bitset tests_failed (a uint32_t) as the set of the positions of its
\* bits that are 1; Bits(m) is the constant m, and tests_failed |= m is the
\* union with Bits(m).
Bits(m) == {k \in 0..30 : (m \div (2 ^ k)) % 2 = 1}

(***************************************************************************)
(* Statistical limits (hwrng_limits.h, not part of the sources), each as   *)
(* the Q16.16 value of the F16(...) expression the tests compare with.     *)
(***************************************************************************)
\* F16((STATTEST_MIN_MEAN - (HISTOGRAM_NUM_BINS / 2)) / SAMPLE_SCALE_DOWN)
F16_STATTEST_MIN_MEAN == -131072
\* F16((STATTEST_MAX_MEAN - (HISTOGRAM_NUM_BINS / 2)) / SAMPLE_SCALE_DOWN)
F16_STATTEST_MAX_MEAN == 131072
\* F16((STATTEST_MIN_VARIANCE / SAMPLE_SCALE_DOWN) / SAMPLE_SCALE_DOWN)
F16_STATTEST_MIN_VARIANCE == 65536
\* F16((STATTEST_MAX_VARIANCE / SAMPLE_SCALE_DOWN) / SAMPLE_SCALE_DOWN)
F16_STATTEST_MAX_VARIANCE == 1048576
\* F16(STATTEST_MAX_SKEWNESS * STATTEST_MAX_SKEWNESS)
F16_STATTEST_MAX_SKEWNESS_SQUARED == 16384
F16_STATTEST_MIN_KURTOSIS == -65536
F16_STATTEST_MAX_KURTOSIS == 65536
F16_STATTEST_MIN_ENTROPY == 196608
\* F16(PSD_MIN_PEAK * 2.0 * FFT_SIZE), F16(PSD_MAX_PEAK * 2.0 * FFT_SIZE)
F16_PSD_MIN_PEAK == 131072
F16_PSD_MAX_PEAK == 393216
\* F16(PSD_MIN_BANDWIDTH * 2.0 * FFT_SIZE)
F16_PSD_MIN_BANDWIDTH == 196608
F16_PSD_BANDWIDTH_THRESHOLD == 32768
PSD_THRESHOLD_REPETITIONS == 2
AUTOCORR_START_LAG == 2
F16_AUTOCORR_THRESHOLD == 32768
\* ENTROPY_BITS_PER_SAMPLE, in thousandths of a bit.
ENTROPY_BITS_PER_SAMPLE_MILLI == 4500
\* (int)(16.0 * ENTROPY_BITS_PER_SAMPLE): the conversion truncates.
EntropyBitsPerCall == (16 * ENTROPY_BITS_PER_SAMPLE_MILLI) \div 1000

(***************************************************************************)
(* estimateBandwidth (lines 95-156).  Every loop yields its result and     *)
(* the set of indices of psd_accumulator it read.                          *)
(***************************************************************************)
FftBins == 0..FFT_SIZE
\* psd_accumulator[i]; a read outside the array yields an unspecified
\* value (here 0) and is recorded.
PsdAt(psd, i) == IF i \in DOMAIN psd THEN psd[i] ELSE 0

\* The peak search keeping the last of several equal maxima.
RECURSIVE PeakScanLast(_, _, _, _, _)
PeakScanLast(psd, i, threshold, max_bin, reads) ==
    IF ~(i < (FFT_SIZE + 1))
    THEN [threshold |-> threshold, max_bin |-> max_bin, reads |-> reads]
    ELSE IF PsdAt(psd, i) >= threshold /\ PsdAt(psd, i) > fix16_zero
         THEN PeakScanLast(psd, i + 1, PsdAt(psd, i), i, reads \cup {i})
         ELSE PeakScanLast(psd, i + 1, threshold, max_bin, reads \cup {i})
\* Lines 104-113: the peak and its bin.
RECURSIVE PeakScan(_, _, _, _, _)
PeakScan(psd, i, threshold, max_bin, reads) ==
    IF ~(i < (FFT_SIZE + 1))
    THEN [threshold |-> threshold, max_bin |-> max_bin, reads |-> reads]
    ELSE IF PsdAt(psd, i) > threshold
         THEN PeakScan(psd, i + 1, PsdAt(psd, i), i, reads \cup {i})
         ELSE PeakScan(psd, i + 1, threshold, max_bin, reads \cup {i})

\* Lines 116-134: search for left edge.
RECURSIVE LeftScan(_, _, _, _, _, _)
LeftScan(psd, i, below_counter, threshold, reps, reads) ==
    IF ~(i >= 0) THEN [bin |-> 0, reads |-> reads]
    ELSE LET c == IF PsdAt(psd, i) < threshold THEN below_counter + 1 ELSE 0
         IN  IF c >= reps
             THEN [bin |-> i + reps, reads |-> reads \cup {i}]
             ELSE LeftScan(psd, i - 1, c, threshold, reps, reads \cup {i})

\* Lines 135-153: search for right edge.
RECURSIVE RightScan(_, _, _, _, _, _)
RightScan(psd, i, below_counter, threshold, reps, reads) ==
    IF ~(i < (FFT_SIZE + 1)) THEN [bin |-> FFT_SIZE, reads |-> reads]
    ELSE LET c == IF PsdAt(psd, i) < threshold THEN below_counter + 1 ELSE 0
         IN  IF c >= reps
             THEN [bin |-> i - reps, reads |-> reads \cup {i}]
             ELSE RightScan(psd, i + 1, c, threshold, reps, reads \cup {i})

\* estimateBandwidth with PSD_BANDWIDTH_THRESHOLD = factor (Q16.16) and
\* PSD_THRESHOLD_REPETITIONS = reps.
EstimateBandwidthWith(psd, factor, reps) ==
    LET peak == PeakScan(psd, 0, fix16_zero, 0, {})
        threshold == fix16_mul(peak.threshold, factor).val
        left == LeftScan(psd, peak.max_bin, 0, threshold, reps, {})
        right == RightScan(psd, peak.max_bin, 0, threshold, reps, {})
    IN  [bandwidth |-> right.bin - left.bin,
         max_bin |-> peak.max_bin,
         left_bin |-> left.bin,
         right_bin |-> right.bin,
         peak |-> peak.threshold,
         threshold |-> threshold,
         reads |-> peak.reads \cup left.reads \cup right.reads]

estimateBandwidth(psd) ==
    EstimateBandwidthWith(psd, F16_PSD_BANDWIDTH_THRESHOLD, PSD_THRESHOLD_REPETITIONS)

(***************************************************************************)
(* findMaximumAutoCorrelation (lines 168-188).                             *)
(***************************************************************************)
\* sample = -sample: negating the most negative int32_t overflows, which is
\* undefined; the build wraps (the value stays) or pins it at a limit.
Negate32(x, ub) ==
    IF x # fix16_minimum THEN -x
    ELSE IF ub = "max" THEN fix16_maximum ELSE fix16_minimum

RECURSIVE MaxAutoCorrScan(_, _, _, _)
MaxAutoCorrScan(fft_buffer, i, max, ub) ==
    IF ~(i < (FFT_SIZE + 1)) THEN max
    ELSE LET s0 == fft_buffer[i].real
             sample == IF s0 < fix16_zero THEN Negate32(s0, ub) ELSE s0
         IN  MaxAutoCorrScan(fft_buffer, i + 1,
                             IF sample > max THEN sample ELSE max, ub)

findMaximumAutoCorrelation(fft_buffer, ub) ==
    MaxAutoCorrScan(fft_buffer, AUTOCORR_START_LAG, fix16_zero, ub)

(***************************************************************************)
(* histogramTestsFailed (lines 198-292).  The statistics routines          *)
(* (statistics.c) are not part of the sources: what they return, and       *)
(* whether they raise the sticky flags, is the input st.                   *)
(***************************************************************************)
\* "if (cond) tests_failed |= m": the bits the statement adds.
Mask(cond, m) == IF cond THEN Bits(m) ELSE {}

\* The skewness test comparing kappa3 itself, not its square.
SkewnessTestUnsquared(kappa3, variance) ==
    LET variance_squared == fix16_mul(variance, variance).val
        variance_cubed == fix16_mul(variance_squared, variance).val
    IN  kappa3 >=
            fix16_mul(variance_cubed, F16_STATTEST_MAX_SKEWNESS_SQUARED).val
\* Lines 255-262: the squared form of the skewness test.
SkewnessTest(kappa3, variance) ==
    LET variance_squared == fix16_mul(variance, variance).val
        variance_cubed == fix16_mul(variance_squared, variance).val
        kappa3_squared == fix16_mul(kappa3, kappa3).val
    IN  kappa3_squared >=
            fix16_mul(variance_cubed, F16_STATTEST_MAX_SKEWNESS_SQUARED).val

\* Lines 267-277: the kurtosis tests.
KurtosisLow(kappa4, variance) ==
    LET variance_squared == fix16_mul(variance, variance).val
        three_times_variance_squared ==
            fix16_mul(fix16_from_int(3), variance_squared).val
        term1 == fix16_mul(F16_STATTEST_MIN_KURTOSIS, variance_squared).val
    IN  kappa4 <= fix16_add(term1, three_times_variance_squared).val
KurtosisHigh(kappa4, variance) ==
    LET variance_squared == fix16_mul(variance, variance).val
        three_times_variance_squared ==
            fix16_mul(fix16_from_int(3), variance_squared).val
        term1 == fix16_mul(F16_STATTEST_MAX_KURTOSIS, variance_squared).val
    IN  kappa4 >= fix16_add(term1, three_times_variance_squared).val

\* Lines 213-221: the sticky flag around the two groups of computations.
\* flag is fix16_error_occurred on entry.
\* moment_error_occurred taken before the moments are computed.
MomentErrorStale(st, flag) ==
    LET cleared == FALSE
    IN  cleared
MomentErrorOccurred(st, flag) ==
    LET cleared == FALSE                        \* line 213
    IN  cleared \/ st.moment_raised             \* lines 214-218
EntropyErrorOccurred(st, flag) ==
    LET cleared == FALSE                        \* line 219
    IN  cleared \/ st.entropy_raised            \* lines 220-221

histogramTestsFailed(st, flag) ==
    LET moment_error_occurred == MomentErrorOccurred(st, flag)
        entropy_error_occurred == EntropyErrorOccurred(st, flag)
        t0 == {}
        t1 == t0 \cup (Mask(st.mean <= F16_STATTEST_MIN_MEAN, 1))
        t2 == t1 \cup (Mask(st.mean >= F16_STATTEST_MAX_MEAN, 1))
        t3 == t2 \cup (Mask(st.variance <= F16_STATTEST_MIN_VARIANCE, 2))
        t4 == t3 \cup (Mask(st.variance >= F16_STATTEST_MAX_VARIANCE, 2))
        t5 == t4 \cup (Mask(SkewnessTest(st.kappa3, st.variance), 4))
        t6 == t5 \cup (Mask(KurtosisLow(st.kappa4, st.variance), 8))
        t7 == t6 \cup (Mask(KurtosisHigh(st.kappa4, st.variance), 8))
        t8 == t7 \cup (Mask(moment_error_occurred
                             \/ st.histogram_overflow_occurred, 15))
        t9 == t8 \cup (Mask(st.entropy_estimate < F16_STATTEST_MIN_ENTROPY, 128))
        t10 == t9 \cup (Mask(entropy_error_occurred, 128))
    IN  [tests_failed |-> t10, variance |-> st.variance]

(***************************************************************************)
(* fftTestsFailed (lines 300-351).  st.fft_buffer is the correlogram and   *)
(* st.autocorrelation_error what calculateAutoCorrelation returns.         *)
(***************************************************************************)
fftTestsFailed(variance, st, ub) ==
    LET bw == estimateBandwidth(st.psd_accumulator)
        autocorrelation_error_occurred == st.autocorrelation_error
        max_autocorrelation == findMaximumAutoCorrelation(st.fft_buffer, ub)
        t0 == {}
        t1 == t0 \cup (Mask(fix16_from_int(bw.max_bin) < F16_PSD_MIN_PEAK, 16))
        t2 == t1 \cup (Mask(fix16_from_int(bw.max_bin) > F16_PSD_MAX_PEAK, 16))
        t3 == t2 \cup (Mask(fix16_from_int(bw.bandwidth) < F16_PSD_MIN_BANDWIDTH, 32))
        t4 == t3 \cup (Mask(st.psd_accumulator_error_occurred, 48))
        t5 == t4 \cup (Mask(max_autocorrelation >
                                fix16_mul(variance, F16_AUTOCORR_THRESHOLD).val, 64))
        t6 == t5 \cup (Mask(autocorrelation_error_occurred, 64))
    IN  t6

(***************************************************************************)
(* The verdict and the return value of fillAndTestSamplesArray             *)
(* (lines 439-454).                                                        *)
(***************************************************************************)
\* tests_failed = histogramTestsFailed(&variance);
\* tests_failed |= fftTestsFailed(variance);
\* The FFT tests skipped once the histogram tests have failed.
TestsFailedShortCircuit(st, ub) ==
    IF histogramTestsFailed(st, st.flag_before).tests_failed # {}
    THEN histogramTestsFailed(st, st.flag_before).tests_failed
    ELSE histogramTestsFailed(st, st.flag_before).tests_failed
             \cup fftTestsFailed(histogramTestsFailed(st, st.flag_before).variance,
                                 st, ub)
TestsFailed(st, ub) ==
    histogramTestsFailed(st, st.flag_before).tests_failed
        \cup fftTestsFailed(histogramTestsFailed(st, st.flag_before).variance,
                            st, ub)

\* Lines 444-454, for a build with or without IGNORE_HWRNG_FAILURE.
RunReturns(tests_failed, ignore_failure) ==
    IF tests_failed # {}
    THEN (IF ignore_failure THEN FALSE ELSE TRUE)
    ELSE FALSE

(***************************************************************************)
(* Inputs of a qualification run: what the statistics routines report.     *)
(***************************************************************************)
\* A power spectrum with a broad plateau: peak at bin 3, bandwidth 8.
PsdBroad ==
    [i \in FftBins |->
        IF i = 0 \/ i = FFT_SIZE THEN 2 * fix16_one
        ELSE IF i = 3 THEN 5 * fix16_one ELSE 4 * fix16_one]
\* A single spectral line at bin k of height h.
PsdLine(k, h) == [i \in FftBins |-> IF i = k THEN h ELSE 0]
\* A correlogram that is v at lag k and 0 elsewhere.
CorrPeak(k, v) ==
    [i \in FftBins |-> [real |-> IF i = k THEN v ELSE 0, imag |-> 0]]

\* Statistics of a healthy noise source: every test passes.
StatNominal ==
    [mean |-> 0, variance |-> 4 * fix16_one, kappa3 |-> 0,
     kappa4 |-> 48 * fix16_one, entropy_estimate |-> 5 * fix16_one,
     moment_raised |-> FALSE, entropy_raised |-> FALSE,
     histogram_overflow_occurred |-> FALSE,
     psd_accumulator |-> PsdBroad, psd_accumulator_error_occurred |-> FALSE,
     fft_buffer |-> CorrPeak(0, 4 * fix16_one),
     autocorrelation_error |-> FALSE,
     flag_before |-> FALSE]

\* The runs the consumer model goes through: a pass and several failures.
RunStatCases ==
    { StatNominal,
      [StatNominal EXCEPT !.variance = 0, !.entropy_estimate = 0],
      [StatNominal EXCEPT !.psd_accumulator = PsdLine(2, 9 * fix16_one),
                          !.fft_buffer = CorrPeak(4, 3 * fix16_one)],
      [StatNominal EXCEPT !.moment_raised = TRUE],
      [StatNominal EXCEPT !.psd_accumulator_error_occurred = TRUE] }

\* The ADC contents the consumer model goes through (within the filter's
\* range: no overflow in firFilter).
RunAdcInputs ==
    { AdcPattern("ramp", 0, 100), AdcPattern("const", 0, 1023),
      AdcPattern("impulse", 5, 700) }

(***************************************************************************)
(* State.                                                                  *)
(***************************************************************************)
VARIABLES
    ignore_hwrng_failure,   \* build option IGNORE_HWRNG_FAILURE
    test_statistics,        \* build option TEST_STATISTICS
    samples,                \* uint16_t samples[SAMPLE_COUNT]
    samples_consumed,       \* uint32_t samples_consumed
    adc_sample_buffer,      \* the ADC driver's buffer
    buffer,                 \* the caller's 32 bytes
    ret,                    \* what the last call returned
    call,                   \* what the last call did (observation)
    run_log,                \* the most recent qualification run (observation)
    fir,                    \* the decimation loop (FirSpec)
    stats,                  \* inputs of the tests (TestsSpec, SkewSpec, BwSpec)
    tests,                  \* outcome of the tests (TestsSpec, SkewSpec)
    bw,                     \* outcome of estimateBandwidth (BwSpec)
    run                     \* position and locals of a call in progress (RunSpec)

vars == << ignore_hwrng_failure, test_statistics, samples, samples_consumed,
           adc_sample_buffer, buffer, ret, call, run_log, fir, stats, tests, bw,
           run >>

SampleIndices == 0..(SAMPLE_COUNT - 1)
BufferIndices == 0..31
ZeroSamples == [n \in SampleIndices |-> 0]
ZeroAdc == [k \in AdcIndices |-> 0]
\* What the caller's buffer holds before the first call.
CallerBuffers == { [k \in BufferIndices |-> 0], [k \in BufferIndices |-> 165] }

\* Values of the variables a specification does not use.
FirIdle ==
    [ub |-> "wrap", j |-> 0, filtered |-> FALSE, base_index |-> 0,
     indices |-> << >>,
     hi |-> 0, lo |-> 0, overflowed |-> FALSE, value |-> 0, stored |-> 0]
StatsIdle == StatNominal
TestsIdle == [done |-> FALSE]
BwIdle == [done |-> FALSE]
CallIdle ==
    [called |-> FALSE, ran |-> FALSE, entry_consumed |-> 0,
     entry_buffer |-> [k \in BufferIndices |-> 0], copy_start |-> -1,
     max_read |-> -1, prev_negative |-> FALSE, since_run |-> 0]
RunLogIdle == [runs |-> FALSE, tests_failed |-> {}, returned |-> FALSE]
\* No call in progress: idle mode not suppressed, the ADC at rest, the
\* sticky flag fix16_error_occurred clear.
RunIdle ==
    [pc |-> "idle", i |-> 0, idle_suppressed |-> FALSE,
     adc_filling |-> FALSE, adc_full |-> FALSE,
     fix16_error_occurred |-> FALSE,
     histogram_count |-> 0, psd_count |-> 0,
     moment_error_occurred |-> FALSE, entropy_error_occurred |-> FALSE,
     autocorrelation_error_occurred |-> FALSE,
     variance |-> 0, max_bin |-> 0, bandwidth |-> 0,
     max_autocorrelation |-> 0, threshold |-> 0,
     histogram_failed |-> {}, fft_failed |-> {}, tests_failed |-> {},
     run_failed |-> FALSE, call_failed |-> FALSE,
     histogram_done |-> FALSE, acquisitions |-> 0, blocks_filtered |-> 0,
     flag_at_entry |-> FALSE, ran |-> FALSE, returned |-> FALSE]

(***************************************************************************)
(* hardwareRandom32Bytes (lines 467-507) with the whole of                 *)
(* fillAndTestSamplesArray (lines 386-455) when it calls it.               *)
(***************************************************************************)
\* samples[n]; a read past the array yields an unspecified value (here 0).
SampleAt(s, n) == IF n \in DOMAIN s THEN s[n] ELSE 0

\* Lines 405-423: the pool filled from one ADC buffer content per block.
FillSamples(adcs, ub) ==
    [n \in SampleIndices |->
        ToUint16(firFilter(adcs[n \div DECIMATED_SAMPLE_BUFFER_SIZE],
                           BaseIndex(n % DECIMATED_SAMPLE_BUFFER_SIZE), ub))]

\* Line 474 with the test for an unused pool left out.
NeedsRunOnlyWhenExhausted(consumed) == consumed >= SAMPLE_COUNT
\* Line 474 with > for >=.
NeedsRunPastEnd(consumed) == (consumed = 0) \/ (consumed > SAMPLE_COUNT)
\* Line 474: whether the call performs a qualification run.
NeedsRun(consumed) == (consumed = 0) \/ (consumed >= SAMPLE_COUNT)

\* Lines 492-498 with the two bytes of a sample in the other order.
CopySamplesBigEndian(s, cursor) ==
    [k \in BufferIndices |->
        LET sample == SampleAt(s, cursor + (k \div 2))
        IN  IF k % 2 = 0 THEN (sample \div 256) % 256 ELSE sample % 256]
\* Lines 492-498: buffer[i * 2] = (uint8_t)sample;
\* buffer[i * 2 + 1] = (uint8_t)(sample >> 8), for 16 samples from cursor.
CopySamples(s, cursor) ==
    [k \in BufferIndices |->
        LET sample == SampleAt(s, cursor + (k \div 2))
        IN  IF k % 2 = 0 THEN sample % 256 ELSE (sample \div 256) % 256]

\* Lines 476-483 without the return.
ReturnsEarlyNever(run_failed, with_statistics) == FALSE
\* Lines 476-483: a failed run returns -1 at once, except in the build with
\* TEST_STATISTICS, which only notes the failure.
ReturnsEarly(run_failed, with_statistics) == run_failed /\ ~with_statistics

\* Lines 499-506: the value returned after the copy.
ReturnAfterCopy(tests_failed) ==
    IF tests_failed THEN -1 ELSE EntropyBitsPerCall

\* The call, given the run it may perform: the verdict of the tests and
\* the pool the run leaves in samples.
Call(verdict, pool, last_adc) ==
    LET need == NeedsRun(samples_consumed)
        run_failed == need /\ RunReturns(verdict, ignore_hwrng_failure)
        cursor == IF need THEN 0 ELSE samples_consumed    \* line 397
        early == ReturnsEarly(run_failed, test_statistics)
    IN  /\ samples' = pool
        /\ adc_sample_buffer' = last_adc
        /\ samples_consumed' = IF early THEN cursor ELSE cursor + 16
        /\ buffer' = IF early THEN buffer ELSE CopySamples(pool, cursor)
        /\ ret' = IF early THEN -1 ELSE ReturnAfterCopy(run_failed)
        /\ run_log' =
               IF need
               THEN [runs |-> TRUE, tests_failed |-> verdict,
                     returned |-> run_failed]
               ELSE run_log
        /\ call' =
               [called |-> TRUE, ran |-> need,
                entry_consumed |-> samples_consumed,
                entry_buffer |-> buffer,
                copy_start |-> IF early THEN -1 ELSE cursor,
                max_read |-> IF early THEN -1 ELSE cursor + 15,
                prev_negative |-> call.called /\ ret < 0,
                since_run |-> IF need THEN 1 ELSE call.since_run + 1]

\* The runs of this specification: the verdicts of RunStatCases, and the
\* pools (with the last ADC content) of every sequence of RunAdcInputs.
\* These inputs raise no overflow in firFilter and none in
\* findMaximumAutoCorrelation.
RunVerdicts == {TestsFailed(st, "wrap") : st \in RunStatCases}
RunPools ==
    {[pool |-> FillSamples(adcs, "wrap"), last_adc |-> adcs[PoolBlocks - 1]] :
        adcs \in [0..(PoolBlocks - 1) -> RunAdcInputs]}

hardwareRandom32Bytes ==
    /\ IF NeedsRun(samples_consumed)
       THEN \E verdict \in RunVerdicts, filled \in RunPools :
                Call(verdict, filled.pool, filled.last_adc)
       ELSE Call({}, samples, adc_sample_buffer)
    /\ UNCHANGED << ignore_hwrng_failure, test_statistics, fir, stats, tests, bw,
                    run >>

Init ==
    /\ ignore_hwrng_failure \in BOOLEAN
    /\ test_statistics \in BOOLEAN
    /\ samples = ZeroSamples
    /\ samples_consumed = 0
    /\ adc_sample_buffer = ZeroAdc
    /\ buffer \in CallerBuffers
    /\ ret = 0
    /\ call = CallIdle
    /\ run_log = RunLogIdle
    /\ fir = FirIdle
    /\ stats = StatsIdle
    /\ tests = TestsIdle
    /\ bw = BwIdle
    /\ run = RunIdle

Next == hardwareRandom32Bytes

Spec == Init /\ [][Next]_vars

(***************************************************************************)
(* Properties of the consumer operation.                                   *)
(***************************************************************************)
ProductionBuild == ~ignore_hwrng_failure /\ ~test_statistics

\* buffer holds samples[c], ..., samples[c + 15], each as its low byte
\* followed by its high byte.
BufferHoldsSamplesFrom(c) ==
    /\ c >= 0
    /\ c + 15 < SAMPLE_COUNT
    /\ \A i \in 0..15 :
          /\ buffer[2 * i] = samples[c + i] % 256
          /\ buffer[(2 * i) + 1] = samples[c + i] \div 256

\* C1: in the production build, a call that returns a value >= 0 has
\* written into buffer exactly the 16 samples from the cursor at the start
\* of the copy, low byte then high byte, and the most recent qualification
\* run of the pool had verdict 0.
C1_PoolIntegrity ==
    (ProductionBuild /\ call.called /\ ret >= 0) =>
        /\ BufferHoldsSamplesFrom(call.copy_start)
        /\ samples_consumed = call.copy_start + 16
        /\ run_log.runs
        /\ run_log.tests_failed = {}

\* A production call served from the second sixteen of a pool that holds
\* samples with different low and high bytes.
C1_Witness ==
    /\ ProductionBuild /\ call.called /\ ret >= 0
    /\ call.copy_start = 16
    /\ samples[16] \div 256 # samples[16] % 256
    /\ run_log.tests_failed = {}

C4_CursorDiscipline ==
    call.called =>
        /\ call.ran <=> (call.entry_consumed = 0
                         \/ call.entry_consumed >= SAMPLE_COUNT)
        /\ samples_consumed % 16 = 0
        /\ samples_consumed \in 0..SAMPLE_COUNT
        /\ call.max_read < SAMPLE_COUNT
        /\ call.since_run \in 1..(SAMPLE_COUNT \div 16)
        /\ (run_log.runs /\ ~run_log.returned) =>
              /\ ret >= 0
              /\ call.copy_start = 16 * (call.since_run - 1)
              /\ BufferHoldsSamplesFrom(call.copy_start)
              /\ samples_consumed = 16 * call.since_run
              /\ call.ran <=> call.since_run = 1

\* The last call a pool serves: the cursor reaches SAMPLE_COUNT.
C4_Witness ==
    /\ call.called /\ ~call.ran /\ ret >= 0
    /\ call.since_run = SAMPLE_COUNT \div 16
    /\ samples_consumed = SAMPLE_COUNT
    /\ run_log.tests_failed = {}

(***************************************************************************)
(* FirSpec: the decimation loop of fillAndTestSamplesArray (lines          *)
(* 415-422) on the first block of the pool, one output sample per step,    *)
(* for ADC buffers of 16-bit unsigned samples.                             *)
(***************************************************************************)
\* Amplitudes: small, the largest 10-bit value, the two values around the
\* largest one the accumulator can always take, half scale, full scale.
AdcAmplitudes == {1, 1023, 27888, 27889, 32768, 65535}
FirAdcInputs ==
    {AdcPattern(kind, pos, amp) :
        kind \in {"const", "impulse", "ramp", "pos", "neg"},
        pos \in {0, 4, 16, 31},
        amp \in AdcAmplitudes}

InitFir ==
    /\ ignore_hwrng_failure = FALSE
    /\ test_statistics = FALSE
    /\ samples = ZeroSamples
    /\ samples_consumed = 0
    /\ adc_sample_buffer \in FirAdcInputs
    /\ buffer = [k \in BufferIndices |-> 0]
    /\ ret = 0
    /\ call = CallIdle
    /\ run_log = RunLogIdle
    /\ fir \in {[FirIdle EXCEPT !.ub = ub] : ub \in OverflowOutcomes}
    /\ stats = StatsIdle
    /\ tests = TestsIdle
    /\ bw = BwIdle
    /\ run = RunIdle

\* One pass of the loop over j (lines 415-422): filter, store.
FilterStep ==
    /\ fir.j < DECIMATED_SAMPLE_BUFFER_SIZE
    /\ \E acc \in {FirAcc(adc_sample_buffer, BaseIndex(fir.j), FILTER_ORDER)} :
       \E filtered_sample \in
              {firFilter(adc_sample_buffer, BaseIndex(fir.j), fir.ub)} :
          /\ samples' = [samples EXCEPT ![fir.j] = ToUint16(filtered_sample)]
          /\ fir' = [ub |-> fir.ub,
                     j |-> fir.j + 1,
                     filtered |-> TRUE,
                     base_index |-> U32Low(BaseIndex(fir.j)),
                     indices |-> [i \in 1..FILTER_ORDER |->
                                     FirIndex(BaseIndex(fir.j), i - 1)],
                     hi |-> acc.hi, lo |-> acc.lo,
                     overflowed |-> acc.overflowed,
                     value |-> filtered_sample,
                     stored |-> ToUint16(filtered_sample)]
    /\ UNCHANGED << ignore_hwrng_failure, test_statistics, samples_consumed,
                    adc_sample_buffer, buffer, ret, call, run_log, stats,
                    tests, bw, run >>

NextFir == FilterStep
FirSpec == InitFir /\ [][NextFir]_vars

\* The output index of the sample filtered last.
FirJ == fir.j - 1

RECURSIVE SumSeq(_, _)
SumSeq(q, n) == IF n = 0 THEN 0 ELSE q[n] + SumSeq(q, n - 1)
SumOfCoefficients == SumSeq(fir_lowpass_coefficients, FILTER_ORDER)
SumOfMagnitudes ==
    SumSeq([i \in 1..FILTER_ORDER |-> Abs(fir_lowpass_coefficients[i])],
           FILTER_ORDER)
SumOfPositiveCoefficients ==
    SumSeq([i \in 1..FILTER_ORDER |->
               IF fir_lowpass_coefficients[i] > 0
               THEN fir_lowpass_coefficients[i] ELSE 0], FILTER_ORDER)
\* The largest sample value for which no buffer content overflows the
\* accumulator.
AccumulatorSafeAdcMax == fix16_maximum \div SumOfPositiveCoefficients

\* The sum S of adc[(j * OVERSAMPLE_RATIO - FILTER_HALF_ORDER + i) mod
\* ADC_SAMPLE_BUFFER_SIZE] * coeff[i] over the first n taps, as a
\* mathematical integer (hi * 2^16 + lo).
RECURSIVE ExactSum(_, _, _)
ExactSum(adc, j, n) ==
    IF n = 0 THEN WideZero
    ELSE WideAdd(ExactSum(adc, j, n - 1),
                 adc[(((j * OVERSAMPLE_RATIO) - FILTER_HALF_ORDER) + (n - 1))
                         % ADC_SAMPLE_BUFFER_SIZE]
                     * fir_lowpass_coefficients[n])
\* Every partial sum of S, in the order of the taps, is a 32-bit signed
\* integer.
AccumulatorFits(adc, j) ==
    \A n \in 1..FILTER_ORDER : FitsInt32(ExactSum(adc, j, n))
\* floor((S + 2^15) / 2^16)
RoundHalfUp(w) == w.hi + (IF w.lo >= Pow15 THEN 1 ELSE 0)

\* C8 as stated: the magnitudes of the coefficients sum to less than 1.0,
\* the accumulator never overflows, and the value returned lies in
\* 0..65535, so that the store into samples[] loses nothing.
C8_Original ==
    fir.filtered =>
        /\ SumOfMagnitudes < Pow16
        /\ ~fir.overflowed
        /\ fir.value \in 0..(Pow16 - 1)
        /\ samples[FirJ] = fir.value

\* C8 amended: the 17 coefficients sum to exactly 1.0 (65536) and their
\* magnitudes to 88468; for every ADC buffer content whose samples are at
\* most 27888 the 32-bit accumulator does not overflow; and whenever it
\* does not overflow the value returned is at most 32768, is negative
\* exactly when S < -32768, and is stored unchanged into samples[i + j]
\* exactly when it is not negative.
C8_FilterRange ==
    fir.filtered =>
        /\ SumOfCoefficients = Pow16
        /\ SumOfMagnitudes = 88468
        /\ AccumulatorSafeAdcMax = 27888
        /\ (\A k \in AdcIndices : adc_sample_buffer[k] <= AccumulatorSafeAdcMax)
              => ~fir.overflowed
        /\ ~fir.overflowed =>
              /\ fir.value <= Pow15
              /\ fir.value < 0 <=> (fir.hi < -1 \/ (fir.hi = -1 /\ fir.lo < Pow15))
              /\ samples[FirJ] = fir.value <=> fir.value >= 0

\* A buffer of 10-bit samples whose filtered value is negative and wraps
\* in the store.
C8_Witness ==
    /\ fir.filtered /\ ~fir.overflowed
    /\ \A k \in AdcIndices : adc_sample_buffer[k] <= 1023
    /\ fir.value < 0
    /\ samples[FirJ] = fir.value + Pow16

\* C9 as stated: every tap reads the ADC buffer at ((j * OVERSAMPLE_RATIO
\* - FILTER_HALF_ORDER + i) mod ADC_SAMPLE_BUFFER_SIZE), and the output is
\* floor((S + 2^15) / 2^16).
C9_Original ==
    fir.filtered =>
        /\ \A i \in 0..(FILTER_ORDER - 1) :
              /\ fir.indices[i + 1] =
                     (((FirJ * OVERSAMPLE_RATIO) - FILTER_HALF_ORDER) + i)
                         % ADC_SAMPLE_BUFFER_SIZE
              /\ fir.indices[i + 1] \in AdcIndices
        /\ fir.value = RoundHalfUp(ExactSum(adc_sample_buffer, FirJ, FILTER_ORDER))

\* C9 amended: every tap reads the ADC buffer at ((j * OVERSAMPLE_RATIO -
\* FILTER_HALF_ORDER + i) mod ADC_SAMPLE_BUFFER_SIZE), within the buffer;
\* and whenever S and its partial sums, taken in the order of the taps, fit
\* the 32-bit accumulator, the output is floor((S + 2^15) / 2^16), for
\* negative S as for non-negative S.
C9_IndexAndRounding ==
    fir.filtered =>
        /\ \A i \in 0..(FILTER_ORDER - 1) :
              /\ fir.indices[i + 1] =
                     (((FirJ * OVERSAMPLE_RATIO) - FILTER_HALF_ORDER) + i)
                         % ADC_SAMPLE_BUFFER_SIZE
              /\ fir.indices[i + 1] \in AdcIndices
        /\ AccumulatorFits(adc_sample_buffer, FirJ) =>
              fir.value = RoundHalfUp(ExactSum(adc_sample_buffer, FirJ, FILTER_ORDER))

\* An output whose base index wrapped below 0 and whose sum is negative
\* and lies exactly half way between two integers.
C9_Witness ==
    /\ fir.filtered
    /\ (FirJ * OVERSAMPLE_RATIO) < FILTER_HALF_ORDER
    /\ fir.hi < 0 /\ fir.lo = Pow15 /\ ~fir.overflowed
    /\ fir.value = fir.hi + 1

(***************************************************************************)
(* TestsSpec: the tests at the end of a qualification run (lines 439-454)  *)
(* on what the statistics routines report, in a build with or without      *)
(* IGNORE_HWRNG_FAILURE.                                                   *)
(***************************************************************************)
\* A band of height h over bins lo..hi on a floor of 0.
PsdBand(lo, hi, h) == [i \in FftBins |-> IF i >= lo /\ i <= hi THEN h ELSE 0]

\* Means, variances, fourth moments and entropies on and next to the limits.
TestMeans ==
    {F16_STATTEST_MIN_MEAN, F16_STATTEST_MIN_MEAN + 1, 0,
     F16_STATTEST_MAX_MEAN - 1, F16_STATTEST_MAX_MEAN}
TestVariances ==
    {F16_STATTEST_MIN_VARIANCE, F16_STATTEST_MIN_VARIANCE + 1, 4 * fix16_one,
     F16_STATTEST_MAX_VARIANCE - 1, F16_STATTEST_MAX_VARIANCE}
TestKappa4s ==
    {32 * fix16_one, (32 * fix16_one) + 1, 48 * fix16_one,
     (64 * fix16_one) - 1, 64 * fix16_one}
TestEntropies == {F16_STATTEST_MIN_ENTROPY - 1, F16_STATTEST_MIN_ENTROPY}
\* (moment_raised, histogram_overflow_occurred, entropy_raised, flag_before)
TestHistogramFlags ==
    { <<FALSE, FALSE, FALSE, FALSE>>, <<FALSE, FALSE, FALSE, TRUE>>,
      <<TRUE, FALSE, FALSE, FALSE>>, <<FALSE, TRUE, FALSE, FALSE>>,
      <<FALSE, FALSE, TRUE, FALSE>> }
HistogramCases ==
    { [StatNominal EXCEPT !.mean = m, !.variance = v, !.kappa3 = k3,
                          !.kappa4 = k4, !.entropy_estimate = e,
                          !.moment_raised = f[1],
                          !.histogram_overflow_occurred = f[2],
                          !.entropy_raised = f[3], !.flag_before = f[4]] :
        m \in TestMeans, v \in TestVariances, k3 \in {0, 8 * fix16_one},
        k4 \in TestKappa4s, e \in TestEntropies, f \in TestHistogramFlags }

TestPsds ==
    { PsdBroad, PsdLine(1, 9 * fix16_one), PsdLine(2, 9 * fix16_one),
      PsdBand(2, 4, 9 * fix16_one), PsdBand(6, 8, 9 * fix16_one),
      PsdBand(7, 8, 9 * fix16_one), PsdBand(3, 6, 9 * fix16_one) }
TestCorrelograms ==
    { CorrPeak(0, 4 * fix16_one), CorrPeak(1, 4 * fix16_one),
      CorrPeak(2, 2 * fix16_one), CorrPeak(2, (2 * fix16_one) + 1),
      CorrPeak(4, -((2 * fix16_one) + 1)), CorrPeak(FFT_SIZE, 3 * fix16_one),
      CorrPeak(3, fix16_minimum) }
FftCases ==
    { [StatNominal EXCEPT !.psd_accumulator = p,
                          !.psd_accumulator_error_occurred = pe,
                          !.fft_buffer = c, !.autocorrelation_error = ae] :
        p \in TestPsds, pe \in BOOLEAN, c \in TestCorrelograms,
        ae \in BOOLEAN }
\* Failing histogram statistics together with every FFT case.
MixedCases ==
    { [f EXCEPT !.mean = h.mean, !.variance = h.variance,
                !.moment_raised = h.moment_raised,
                !.entropy_estimate = h.entropy_estimate] :
        f \in FftCases,
        h \in { [StatNominal EXCEPT !.mean = F16_STATTEST_MAX_MEAN],
                [StatNominal EXCEPT !.moment_raised = TRUE],
                [StatNominal EXCEPT !.entropy_estimate = 0,
                                    !.variance = F16_STATTEST_MAX_VARIANCE] } }
\* Third moments and variances (> 0) from one unit in the last place to
\* the largest value, for the skewness test.
SkewKappa3s ==
    {0, 1, -1, 256, fix16_one \div 2, -(fix16_one \div 2), fix16_one,
     (4 * fix16_one) - 1, 4 * fix16_one, -(4 * fix16_one), 8 * fix16_one,
     32 * fix16_one, 100 * fix16_one, 181 * fix16_one, -(182 * fix16_one),
     fix16_maximum, fix16_minimum}
SkewVariances ==
    {1, 2, 655, fix16_one \div 4, fix16_one \div 2, fix16_one,
     2 * fix16_one, 4 * fix16_one, 16 * fix16_one, 100 * fix16_one,
     2000 * fix16_one, fix16_maximum}
SkewCases ==
    { [StatNominal EXCEPT !.kappa3 = k3, !.variance = v,
                          !.moment_raised = mr] :
        k3 \in SkewKappa3s, v \in SkewVariances, mr \in BOOLEAN }
TestStatCases == HistogramCases \cup FftCases \cup MixedCases \cup SkewCases

InitTests ==
    /\ ignore_hwrng_failure \in BOOLEAN
    /\ test_statistics = FALSE
    /\ samples = ZeroSamples
    /\ samples_consumed = 0
    /\ adc_sample_buffer = ZeroAdc
    /\ buffer = [k \in BufferIndices |-> 0]
    /\ ret = 0
    /\ call = CallIdle
    /\ run_log = RunLogIdle
    /\ fir = FirIdle
    /\ stats \in TestStatCases
    /\ tests = TestsIdle
    /\ bw = BwIdle
    /\ run = RunIdle

\* -INT32_MIN in findMaximumAutoCorrelation is undefined: any outcome.
NegateOutcomes(st) ==
    IF \E i \in AUTOCORR_START_LAG..FFT_SIZE : st.fft_buffer[i].real = fix16_minimum
    THEN OverflowOutcomes ELSE {"wrap"}

\* Lines 439-454: both groups of tests, the verdict, what the run returns.
RunTests ==
    /\ ~tests.done
    /\ \E ub \in NegateOutcomes(stats) :
       \E h \in {histogramTestsFailed(stats, stats.flag_before)} :
       \E f \in {fftTestsFailed(h.variance, stats, ub)} :
       \E tf \in {TestsFailed(stats, ub)} :
       \E e \in {estimateBandwidth(stats.psd_accumulator)} :
          tests' = [done |-> TRUE,
                    histogram |-> h.tests_failed,
                    fft |-> f,
                    tests_failed |-> tf,
                    max_bin |-> e.max_bin,
                    bandwidth |-> e.bandwidth,
                    max_autocorrelation |->
                        findMaximumAutoCorrelation(stats.fft_buffer, ub),
                    returned |-> RunReturns(tf, ignore_hwrng_failure)]
    /\ UNCHANGED << ignore_hwrng_failure, test_statistics, samples,
                    samples_consumed, adc_sample_buffer, buffer, ret, call,
                    run_log, fir, stats, bw, run >>

NextTests == RunTests
TestsSpec == InitTests /\ [][NextTests]_vars

HistogramOverflow == stats.moment_raised \/ stats.histogram_overflow_occurred
AnyOverflow ==
    \/ HistogramOverflow
    \/ stats.psd_accumulator_error_occurred
    \/ stats.autocorrelation_error
    \/ stats.entropy_raised
OverflowFailsGroups ==
    /\ HistogramOverflow => {0, 1, 2, 3} \subseteq tests.tests_failed
    /\ stats.psd_accumulator_error_occurred => {4, 5} \subseteq tests.tests_failed
    /\ stats.autocorrelation_error => 6 \in tests.tests_failed
    /\ stats.entropy_raised => 7 \in tests.tests_failed
    /\ AnyOverflow => tests.tests_failed # {}

\* C5 as stated: an overflow in a group sets all bits of the group (0-3,
\* 4-5, 6, 7), the verdict is non-zero and the run is reported as failed.
C5_Original ==
    tests.done =>
        /\ OverflowFailsGroups
        /\ AnyOverflow => tests.returned

\* C5 amended: an overflow in a group sets all bits of the group (moments
\* or histogram: 0-3; PSD: 4-5; autocorrelation: 6; entropy: 7) whatever
\* the statistics are, and the verdict is non-zero; the run is reported as
\* failed unless the build defines IGNORE_HWRNG_FAILURE, where every run
\* is reported as passed.
C5_OverflowFailsGroup ==
    tests.done =>
        /\ OverflowFailsGroups
        /\ AnyOverflow => (tests.returned <=> ~ignore_hwrng_failure)

\* The moments overflowed while every statistic is within its limits.
C5_Witness ==
    /\ tests.done
    /\ stats.moment_raised /\ ~stats.histogram_overflow_occurred
    /\ stats.mean = 0 /\ stats.variance = 4 * fix16_one
    /\ stats.kappa4 = 48 * fix16_one
    /\ tests.tests_failed = {0, 1, 2, 3}
    /\ tests.returned

\* kappa4 limit: limit * var^2 + 3 * var^2 in Q16.16.
KurtosisBound(limit, variance) ==
    fix16_add(fix16_mul(limit, fix16_mul(variance, variance).val).val,
              fix16_mul(fix16_from_int(3),
                        fix16_mul(variance, variance).val).val).val
SkewnessBound(variance) ==
    fix16_mul(fix16_mul(fix16_mul(variance, variance).val, variance).val,
              F16_STATTEST_MAX_SKEWNESS_SQUARED).val
BitConditions ==
    /\ tests.tests_failed = tests.histogram \cup tests.fft
    /\ tests.tests_failed \subseteq 0..7
    /\ 0 \in tests.tests_failed <=>
          \/ stats.mean <= F16_STATTEST_MIN_MEAN
          \/ stats.mean >= F16_STATTEST_MAX_MEAN
          \/ HistogramOverflow
    /\ 1 \in tests.tests_failed <=>
          \/ stats.variance <= F16_STATTEST_MIN_VARIANCE
          \/ stats.variance >= F16_STATTEST_MAX_VARIANCE
          \/ HistogramOverflow
    /\ 2 \in tests.tests_failed <=>
          \/ fix16_mul(stats.kappa3, stats.kappa3).val >= SkewnessBound(stats.variance)
          \/ HistogramOverflow
    /\ 3 \in tests.tests_failed <=>
          \/ stats.kappa4 <= KurtosisBound(F16_STATTEST_MIN_KURTOSIS, stats.variance)
          \/ stats.kappa4 >= KurtosisBound(F16_STATTEST_MAX_KURTOSIS, stats.variance)
          \/ HistogramOverflow
    /\ 7 \in tests.tests_failed <=>
          \/ stats.entropy_estimate < F16_STATTEST_MIN_ENTROPY
          \/ stats.entropy_raised
    /\ 4 \in tests.tests_failed <=>
          \/ tests.max_bin * fix16_one < F16_PSD_MIN_PEAK
          \/ tests.max_bin * fix16_one > F16_PSD_MAX_PEAK
          \/ stats.psd_accumulator_error_occurred
    /\ 5 \in tests.tests_failed <=>
          \/ tests.bandwidth * fix16_one < F16_PSD_MIN_BANDWIDTH
          \/ stats.psd_accumulator_error_occurred
    /\ 6 \in tests.tests_failed <=>
          \/ tests.max_autocorrelation >
                 fix16_mul(stats.variance, F16_AUTOCORR_THRESHOLD).val
          \/ stats.autocorrelation_error

\* C6 as stated: the verdict is the OR of both groups of tests, within
\* bits 0..7, each bit set iff one of its conditions or its group's
\* overflow condition holds, and the run is reported PASS iff the verdict
\* is 0.
C6_Original ==
    tests.done =>
        /\ BitConditions
        /\ ~tests.returned <=> tests.tests_failed = {}

\* C6 amended: the verdict is the OR of both groups of tests (the second
\* runs also when the first failed), only bits 0..7 can be set, each bit
\* is set iff one of its conditions or its group's overflow condition
\* holds, and the run is reported PASS iff the verdict is 0 or the build
\* defines IGNORE_HWRNG_FAILURE.
C6_VerdictBits ==
    tests.done =>
        /\ BitConditions
        /\ ~tests.returned <=> (tests.tests_failed = {} \/ ignore_hwrng_failure)

\* A run whose histogram tests and FFT tests both fail, the peak and the
\* bandwidth lying exactly on their limits' failing side.
C6_Witness ==
    /\ tests.done
    /\ tests.histogram = {0}
    /\ tests.fft = {4, 5}
    /\ ~stats.psd_accumulator_error_occurred
    /\ tests.tests_failed = {0, 4, 5}
    /\ tests.returned

(***************************************************************************)
(* The skewness test against exact arithmetic.                             *)
(***************************************************************************)
\* |kappa3| / variance^(3/2) >= STATTEST_MAX_SKEWNESS for the Q16.16 values
\* kappa3 and variance > 0, in exact arithmetic: with the raw integers k, v
\* and s2 = F16(STATTEST_MAX_SKEWNESS^2), k^2 * 2^32 >= v^3 * s2.
ExactSkewness(kappa3, variance) ==
    BigLeq(BigMul(BigMul(BigMul(BigAbs(variance), BigAbs(variance)),
                         BigAbs(variance)),
                  BigNat(F16_STATTEST_MAX_SKEWNESS_SQUARED)),
           BigMul(BigMul(BigAbs(kappa3), BigAbs(kappa3)),
                  BigMul(BigNat(Pow16), BigNat(Pow16))))
\* a * b is a Q16.16 value: nothing is rounded off and nothing saturates.
ExactProduct(a, b) ==
    /\ \A i \in 1..2 :
          \/ i > Len(BigMul(BigAbs(a), BigAbs(b)))
          \/ BigMul(BigAbs(a), BigAbs(b))[i] = 0
    /\ BigLeq(BigShr16(BigMul(BigAbs(a), BigAbs(b))), BigNat(fix16_maximum))
ExactProducts(kappa3, variance) ==
    /\ ExactProduct(kappa3, kappa3)
    /\ ExactProduct(variance, variance)
    /\ ExactProduct(fix16_mul(variance, variance).val, variance)
    /\ ExactProduct(fix16_mul(fix16_mul(variance, variance).val, variance).val,
                    F16_STATTEST_MAX_SKEWNESS_SQUARED)
\* The comparison of lines 255-262 came out true: bit 2 without the
\* overflow condition of its group.
SkewnessBit == 2 \in tests.tests_failed
SkewnessCase == tests.done /\ stats.variance > 0 /\ ~HistogramOverflow

\* C7 as stated: for every kappa3 and variance > 0 the skewness bit is set
\* iff |kappa3| / variance^(3/2) >= STATTEST_MAX_SKEWNESS, also where the
\* square or cube of the variance rounds to 0 and where products overflow.
C7_Original ==
    SkewnessCase =>
        (SkewnessBit <=> ExactSkewness(stats.kappa3, stats.variance))

\* C7 amended: for kappa3 and variance > 0 whose products kappa3^2, var^2,
\* var^3 and var^3 * F16(STATTEST_MAX_SKEWNESS^2) are exact in Q16.16
\* (nothing rounded off, nothing saturated), the skewness bit is set iff
\* |kappa3| / variance^(3/2) >= STATTEST_MAX_SKEWNESS; where the bound
\* var^3 * F16(STATTEST_MAX_SKEWNESS^2) rounds to 0, and where kappa3^2
\* saturates, the bit is set whatever the ratio is.
C7_SkewnessBit ==
    SkewnessCase =>
        /\ ExactProducts(stats.kappa3, stats.variance) =>
              (SkewnessBit <=> ExactSkewness(stats.kappa3, stats.variance))
        /\ SkewnessBound(stats.variance) = 0 => SkewnessBit
        /\ fix16_mul(stats.kappa3, stats.kappa3).err => SkewnessBit

\* Exact products with the ratio exactly on the limit (kappa3 = -4,
\* variance = 4: 4 / 8 = 0.5), where the skewness bit alone is set.
C7_Witness ==
    /\ SkewnessCase
    /\ stats.kappa3 = -(4 * fix16_one) /\ stats.variance = 4 * fix16_one
    /\ ExactProducts(stats.kappa3, stats.variance)
    /\ tests.tests_failed = {2}

(***************************************************************************)
(* BwSpec: estimateBandwidth (lines 95-156) on every power spectrum over   *)
(* three levels, for threshold factors in (0, 1] and repetition counts     *)
(* from 1 up.                                                              *)
(***************************************************************************)
BwLevels == {0, fix16_one, 2 * fix16_one}
BwPsds == [FftBins -> BwLevels]
\* One unit in the last place, one half and one.
BwFactors == {1, fix16_one \div 2, fix16_one}

InitBw ==
    /\ ignore_hwrng_failure = FALSE
    /\ test_statistics = FALSE
    /\ samples = ZeroSamples
    /\ samples_consumed = 0
    /\ adc_sample_buffer = ZeroAdc
    /\ buffer = [k \in BufferIndices |-> 0]
    /\ ret = 0
    /\ call = CallIdle
    /\ run_log = RunLogIdle
    /\ fir = FirIdle
    /\ stats \in {[StatNominal EXCEPT !.psd_accumulator = p] : p \in BwPsds}
    /\ tests = TestsIdle
    /\ bw \in {[done |-> FALSE, factor |-> f, reps |-> r] :
                  f \in BwFactors, r \in 1..MaxRepetitions}
    /\ run = RunIdle

EstimateBandwidth ==
    /\ ~bw.done
    /\ \E e \in {EstimateBandwidthWith(stats.psd_accumulator, bw.factor, bw.reps)} :
          bw' = [done |-> TRUE, factor |-> bw.factor, reps |-> bw.reps,
                 bandwidth |-> e.bandwidth, max_bin |-> e.max_bin,
                 left_bin |-> e.left_bin, right_bin |-> e.right_bin,
                 reads |-> e.reads]
    /\ UNCHANGED << ignore_hwrng_failure, test_statistics, samples,
                    samples_consumed, adc_sample_buffer, buffer, ret, call,
                    run_log, fir, stats, tests, run >>

NextBw == EstimateBandwidth
BwSpec == InitBw /\ [][NextBw]_vars

\* The lowest index holding the maximum value.
LowestPeakBin(psd) ==
    CHOOSE k \in FftBins :
        /\ \A j \in FftBins : psd[j] <= psd[k]
        /\ \A j \in FftBins : j < k => psd[j] < psd[k]
\* The bins i of the walk down from max_bin at which the reps bins walked
\* last (i + reps - 1 down to i) are all strictly below the threshold.
LeftTriggers(psd, max_bin, threshold, reps) ==
    {i \in 0..max_bin :
        \A k \in i..(i + reps - 1) : k <= max_bin /\ psd[k] < threshold}
RightTriggers(psd, max_bin, threshold, reps) ==
    {i \in max_bin..FFT_SIZE :
        \A k \in (i - reps + 1)..i : k >= max_bin /\ psd[k] < threshold}
SetMax(S) == CHOOSE x \in S : \A y \in S : y <= x
SetMin(S) == CHOOSE x \in S : \A y \in S : x <= y
LeftEdge(psd, max_bin, threshold, reps) ==
    IF LeftTriggers(psd, max_bin, threshold, reps) = {} THEN 0
    ELSE SetMax(LeftTriggers(psd, max_bin, threshold, reps)) + reps
RightEdge(psd, max_bin, threshold, reps) ==
    IF RightTriggers(psd, max_bin, threshold, reps) = {} THEN FFT_SIZE
    ELSE SetMin(RightTriggers(psd, max_bin, threshold, reps)) - reps

\* C10: for every PSD accumulator content of non-negative values and
\* every threshold factor in (0, 1], estimateBandwidth yields max_bin =
\* the lowest index holding the maximum (0 when all bins are 0) and
\* right - left, where left = i + PSD_THRESHOLD_REPETITIONS for the first i
\* reached walking down from max_bin at which that many consecutive bins
\* are strictly below peak * factor (the Q16.16 product; 0 if bin 0 is
\* reached without), and right = i - PSD_THRESHOLD_REPETITIONS walking up
\* (FFT_SIZE if not triggered); left <= max_bin <= right, the result lies
\* in 0..FFT_SIZE and no index outside 0..FFT_SIZE is read.
C10_BandwidthEstimate ==
    bw.done =>
        \E peak_bin \in {LowestPeakBin(stats.psd_accumulator)} :
        \E threshold \in
               {fix16_mul(stats.psd_accumulator[peak_bin], bw.factor).val} :
            /\ bw.max_bin = peak_bin
            /\ (\A k \in FftBins : stats.psd_accumulator[k] = 0) => bw.max_bin = 0
            /\ bw.left_bin =
                   LeftEdge(stats.psd_accumulator, peak_bin, threshold, bw.reps)
            /\ bw.right_bin =
                   RightEdge(stats.psd_accumulator, peak_bin, threshold, bw.reps)
            /\ bw.bandwidth = bw.right_bin - bw.left_bin
            /\ bw.left_bin <= bw.max_bin /\ bw.max_bin <= bw.right_bin
            /\ bw.bandwidth \in 0..FFT_SIZE
            /\ bw.reads \subseteq FftBins

\* Two equal maxima, a single bin below the threshold inside the band that
\* does not end it, and both edges found by two consecutive low bins.
C10_Witness ==
    /\ bw.done /\ bw.reps = 2 /\ bw.factor = fix16_one \div 2
    /\ stats.psd_accumulator =
           [i \in FftBins |->
               IF i \in {3, 5} THEN 2 * fix16_one
               ELSE IF i \in {2, 6} THEN fix16_one ELSE 0]
    /\ bw.max_bin = 3 /\ bw.left_bin = 2 /\ bw.right_bin = 6
    /\ bw.bandwidth = 4

(***************************************************************************)
(* findMaximumAutoCorrelation against the largest magnitude.               *)
(***************************************************************************)
AutoCorrLags == AUTOCORR_START_LAG..FFT_SIZE
\* |x| <= r for 32-bit signed x and r; the magnitude of the most negative
\* value, 2^31, exceeds every r.
MagnitudeAtMost(x, r) == x # fix16_minimum /\ Abs(x) <= r
MagnitudeIs(x, r) == x # fix16_minimum /\ Abs(x) = r
\* The correlogram with other values at the lags below AUTOCORR_START_LAG
\* and in every imaginary part.
OtherLowLagsAndImag(fft_buffer) ==
    [i \in FftBins |->
        [real |-> IF i < AUTOCORR_START_LAG THEN fix16_maximum
                  ELSE fft_buffer[i].real,
         imag |-> -fix16_one]]

\* C11: for every correlogram, 0x80000000 included, the result of
\* findMaximumAutoCorrelation is the largest |real part| over the lags
\* AUTOCORR_START_LAG..FFT_SIZE, is >= 0, and depends neither on the lower
\* lags nor on the imaginary parts.
C11_Original ==
    tests.done =>
        /\ tests.max_autocorrelation >= 0
        /\ \A k \in AutoCorrLags :
              MagnitudeAtMost(stats.fft_buffer[k].real, tests.max_autocorrelation)
        /\ \E k \in AutoCorrLags :
              MagnitudeIs(stats.fft_buffer[k].real, tests.max_autocorrelation)
        /\ \A ub \in OverflowOutcomes :
              findMaximumAutoCorrelation(stats.fft_buffer, ub) =
                  findMaximumAutoCorrelation(
                      OtherLowLagsAndImag(stats.fft_buffer), ub)

(***************************************************************************)
(* RunSpec: a call of hardwareRandom32Bytes (lines 467-507) step by step,  *)
(* with fillAndTestSamplesArray (lines 386-455), histogramTestsFailed      *)
(* (lines 213-291) and fftTestsFailed (lines 309-350) inlined, beside the  *)
(* ADC, which fills its buffer on its own after beginFillingADCBuffer().   *)
(* run.pc is the statement the call executes next.                         *)
(***************************************************************************)
\* What the statistics routines report in a run: statistics within every
\* limit, with and without overflow in the moments, the entropy estimate
\* and the correlogram.
StepStatCases ==
    { [StatNominal EXCEPT !.moment_raised = mr, !.entropy_raised = er,
                          !.autocorrelation_error = ar] :
        mr \in BOOLEAN, er \in BOOLEAN, ar \in BOOLEAN }
\* What the ADC leaves in its buffer.
StepAdcInputs == { AdcPattern("ramp", 0, 100), AdcPattern("const", 0, 1023) }

\* fix16_error_occurred = false (lines 213, 219 and 310).
FlagKept(flag) == flag
FlagBeforeMoments(flag) == FALSE
FlagBeforeEntropy(flag) == FALSE
FlagBeforeAutoCorrelation(flag) == FALSE

\* The busy-wait left while the buffer is not yet full.
PcAfterPollInverted(full) == IF full THEN "wait" ELSE "resume"
\* Lines 409-412: while (!isADCBufferFull()) { }
PcAfterPoll(full) == IF full THEN "resume" ELSE "wait"

\* The statistics started after the first block.
PcAfterFilterFirstBlock(i) == "histogram"
\* Line 405: the next block, or the tests after the last one.
PcAfterFilter(i) ==
    IF i + DECIMATED_SAMPLE_BUFFER_SIZE < SAMPLE_COUNT
    THEN "suppress" ELSE "histogram"

\* Lines 255-274: whether a product or sum of the tests saturates (and
\* raises the sticky flag).
HistogramTestsRaise(st) ==
    \/ fix16_mul(st.variance, st.variance).err
    \/ fix16_mul(fix16_mul(st.variance, st.variance).val, st.variance).err
    \/ fix16_mul(st.kappa3, st.kappa3).err
    \/ fix16_mul(fix16_mul(fix16_mul(st.variance, st.variance).val,
                           st.variance).val,
                 F16_STATTEST_MAX_SKEWNESS_SQUARED).err
    \/ fix16_mul(fix16_from_int(3), fix16_mul(st.variance, st.variance).val).err
    \/ fix16_mul(F16_STATTEST_MIN_KURTOSIS,
                 fix16_mul(st.variance, st.variance).val).err
    \/ fix16_mul(F16_STATTEST_MAX_KURTOSIS,
                 fix16_mul(st.variance, st.variance).val).err

\* Lines 325-350: the tests of fftTestsFailed on the values its earlier
\* lines computed.
FftTestBits(max_bin, bandwidth, psd_error, max_autocorrelation, threshold, autocorrelation_error_occurred) ==
    Mask(fix16_from_int(max_bin) < F16_PSD_MIN_PEAK, 16)
        \cup Mask(fix16_from_int(max_bin) > F16_PSD_MAX_PEAK, 16)
        \cup Mask(fix16_from_int(bandwidth) < F16_PSD_MIN_BANDWIDTH, 32)
        \cup Mask(psd_error, 48)
        \cup Mask(max_autocorrelation > threshold, 64)
        \cup Mask(autocorrelation_error_occurred, 64)

\* calculateAutoCorrelation reports the overflows of its computation
\* through the sticky flag: it returns the flag as it is when it ends.
CalculateAutoCorrelationReturns(flag_after) == flag_after

\* What the routines return on everything a run can hand them, computed
\* once: the variance the run holds, the statistics of the run, the state
\* of the sticky flag, the ADC buffer.
StepVariances == { st.variance : st \in StepStatCases } \cup {RunIdle.variance}
StepFilterBlock == [adc \in StepAdcInputs |-> FilterBlock(adc, "wrap")]
StepHistogramTests ==
    [v \in StepVariances |-> [st \in StepStatCases |-> [flag \in BOOLEAN |->
        [tests_failed |->
             histogramTestsFailed([st EXCEPT !.variance = v], flag).tests_failed,
         raised |-> HistogramTestsRaise([st EXCEPT !.variance = v])]]]]
StepBandwidth ==
    [st \in StepStatCases |->
        [estimate |-> estimateBandwidth(st.psd_accumulator),
         raised |-> fix16_mul(estimateBandwidth(st.psd_accumulator).peak,
                              F16_PSD_BANDWIDTH_THRESHOLD).err]]
StepMaximumAutoCorrelation ==
    [st \in StepStatCases |-> [ub \in OverflowOutcomes |->
        findMaximumAutoCorrelation(st.fft_buffer, ub)]]
StepThreshold ==
    [v \in StepVariances |-> fix16_mul(v, F16_AUTOCORR_THRESHOLD)]
StepNegateOutcomes == [st \in StepStatCases |-> NegateOutcomes(st)]

InitRun ==
    /\ ignore_hwrng_failure \in BOOLEAN
    /\ test_statistics \in BOOLEAN
    /\ samples = ZeroSamples
    /\ samples_consumed = 0
    /\ adc_sample_buffer = ZeroAdc
    /\ buffer = [k \in BufferIndices |-> 0]
    /\ ret = 0
    /\ call = CallIdle
    /\ run_log = RunLogIdle
    /\ fir = FirIdle
    /\ stats = StatsIdle
    /\ tests = TestsIdle
    /\ bw = BwIdle
    /\ run = RunIdle

RunFrame ==
    UNCHANGED << ignore_hwrng_failure, test_statistics, call, run_log, fir,
                 tests, bw >>
At(pc) == run.pc = pc
\* A step that changes only the position and the locals.
LocalStep == UNCHANGED << samples, samples_consumed, adc_sample_buffer,
                          buffer, ret, stats >>

\* The call returns: its locals are gone; the sticky flag, the histogram,
\* the PSD accumulator, the idle-mode suppression and the ADC stay as they
\* are.
Returned(r) ==
    [RunIdle EXCEPT !.fix16_error_occurred = r.fix16_error_occurred,
                    !.histogram_count = r.histogram_count,
                    !.psd_count = r.psd_count,
                    !.blocks_filtered = r.blocks_filtered,
                    !.idle_suppressed = r.idle_suppressed,
                    !.adc_filling = r.adc_filling, !.adc_full = r.adc_full,
                    !.ran = r.ran, !.acquisitions = r.acquisitions,
                    !.returned = TRUE]

\* The caller calls hardwareRandom32Bytes (line 467).
CallEnter ==
    /\ At("idle")
    /\ run' = [run EXCEPT !.pc = "check", !.ran = FALSE, !.returned = FALSE,
                          !.acquisitions = 0]
    /\ LocalStep /\ RunFrame

\* Line 474.
CheckCursor ==
    /\ At("check")
    /\ run' = [run EXCEPT !.pc = IF NeedsRun(samples_consumed)
                                 THEN "clear" ELSE "copy"]
    /\ LocalStep /\ RunFrame

\* Lines 395-397; what the statistics routines will report in this run
\* is settled here.
ClearAll ==
    /\ At("clear")
    /\ samples_consumed' = 0
    /\ stats' \in StepStatCases
    /\ run' = [run EXCEPT !.pc = "suppress", !.i = 0,
                          !.histogram_count = 0, !.psd_count = 0,
                          !.blocks_filtered = 0, !.histogram_done = FALSE,
                          !.ran = TRUE,
                          !.flag_at_entry = run.fix16_error_occurred]
    /\ UNCHANGED << samples, adc_sample_buffer, buffer, ret >>
    /\ RunFrame

\* Line 407.
SuppressIdle ==
    /\ At("suppress")
    /\ run' = [run EXCEPT !.pc = "begin", !.idle_suppressed = TRUE]
    /\ LocalStep /\ RunFrame

\* Line 408.
BeginFilling ==
    /\ At("begin")
    /\ run' = [run EXCEPT !.pc = "wait", !.adc_filling = TRUE,
                          !.adc_full = FALSE,
                          !.acquisitions = run.acquisitions + 1]
    /\ LocalStep /\ RunFrame

\* The ADC completes the buffer.
AdcCompletes ==
    /\ run.adc_filling
    /\ adc_sample_buffer' \in StepAdcInputs
    /\ run' = [run EXCEPT !.adc_filling = FALSE, !.adc_full = TRUE]
    /\ UNCHANGED << samples, samples_consumed, buffer, ret, stats >>
    /\ RunFrame

\* Lines 409-412: one evaluation of the loop condition.
PollFull ==
    /\ At("wait")
    /\ run' = [run EXCEPT !.pc = PcAfterPoll(run.adc_full)]
    /\ LocalStep /\ RunFrame

\* Line 413.
ResumeIdle ==
    /\ At("resume")
    /\ run' = [run EXCEPT !.pc = "filter", !.idle_suppressed = FALSE]
    /\ LocalStep /\ RunFrame

\* Lines 415-422 for block i, then line 405.
FilterAdcBuffer ==
    /\ At("filter")
    /\ \E block \in {StepFilterBlock[adc_sample_buffer]} :
          samples' = [n \in SampleIndices |->
                         IF n >= run.i /\ n < run.i + DECIMATED_SAMPLE_BUFFER_SIZE
                         THEN block[n - run.i] ELSE samples[n]]
    /\ run' = [run EXCEPT !.pc = PcAfterFilter(run.i),
                          !.i = IF PcAfterFilter(run.i) = "suppress"
                                THEN run.i + DECIMATED_SAMPLE_BUFFER_SIZE ELSE 0,
                          !.blocks_filtered = run.blocks_filtered + 1]
    /\ UNCHANGED << samples_consumed, adc_sample_buffer, buffer, ret, stats >>
    /\ RunFrame

\* Lines 426-429: one incrementHistogram.
IncrementHistogram ==
    /\ At("histogram")
    /\ run' = [run EXCEPT !.histogram_count = run.histogram_count + 1,
                          !.i = IF run.i + 1 < SAMPLE_COUNT THEN run.i + 1 ELSE 0,
                          !.pc = IF run.i + 1 < SAMPLE_COUNT
                                 THEN "histogram" ELSE "psd"]
    /\ LocalStep /\ RunFrame

\* Lines 435-438: one accumulatePowerSpectralDensity.
AccumulatePsd ==
    /\ At("psd")
    /\ run' = [run EXCEPT !.psd_count = run.psd_count + 1,
                          !.i = IF run.i + (FFT_SIZE * 2) < SAMPLE_COUNT
                                THEN run.i + (FFT_SIZE * 2) ELSE 0,
                          !.pc = IF run.i + (FFT_SIZE * 2) < SAMPLE_COUNT
                                 THEN "psd" ELSE "h_clear"]
    /\ LocalStep /\ RunFrame

\* Line 439 enters histogramTestsFailed; line 213.
HistogramClearFlag ==
    /\ At("h_clear")
    /\ run' = [run EXCEPT !.pc = "moments",
                 !.fix16_error_occurred = FlagBeforeMoments(run.fix16_error_occurred)]
    /\ LocalStep /\ RunFrame

\* Lines 214-217.
Moments ==
    /\ At("moments")
    /\ run' = [run EXCEPT !.pc = "h_sample",
                 !.variance = stats.variance,
                 !.fix16_error_occurred =
                     run.fix16_error_occurred \/ stats.moment_raised]
    /\ LocalStep /\ RunFrame

\* Line 218.
SampleMomentError ==
    /\ At("h_sample")
    /\ run' = [run EXCEPT !.pc = "e_clear",
                 !.moment_error_occurred = run.fix16_error_occurred]
    /\ LocalStep /\ RunFrame

\* Line 219.
EntropyClearFlag ==
    /\ At("e_clear")
    /\ run' = [run EXCEPT !.pc = "entropy",
                 !.fix16_error_occurred = FlagBeforeEntropy(run.fix16_error_occurred)]
    /\ LocalStep /\ RunFrame

\* Line 220.
Entropy ==
    /\ At("entropy")
    /\ run' = [run EXCEPT !.pc = "e_sample",
                 !.fix16_error_occurred =
                     run.fix16_error_occurred \/ stats.entropy_raised]
    /\ LocalStep /\ RunFrame

\* Line 221.
SampleEntropyError ==
    /\ At("e_sample")
    /\ run' = [run EXCEPT !.pc = "h_tests",
                 !.entropy_error_occurred = run.fix16_error_occurred]
    /\ LocalStep /\ RunFrame

\* Lines 231-291: the tests on the sampled error flags.
HistogramTests ==
    /\ At("h_tests")
    /\ \E t \in {StepHistogramTests[run.variance][
                      [stats EXCEPT
                          !.moment_raised = run.moment_error_occurred,
                          !.entropy_raised = run.entropy_error_occurred]][
                      run.fix16_error_occurred]} :
          run' = [run EXCEPT !.pc = "f_bandwidth",
                    !.histogram_done = TRUE,
                    !.histogram_failed = t.tests_failed,
                    !.fix16_error_occurred =
                        run.fix16_error_occurred \/ t.raised]
    /\ LocalStep /\ RunFrame

\* Line 440 enters fftTestsFailed; line 309.
Bandwidth ==
    /\ At("f_bandwidth")
    /\ \E e \in {StepBandwidth[stats]} :
          run' = [run EXCEPT !.pc = "f_clear",
                    !.max_bin = e.estimate.max_bin,
                    !.bandwidth = e.estimate.bandwidth,
                    !.fix16_error_occurred =
                        run.fix16_error_occurred \/ e.raised]
    /\ LocalStep /\ RunFrame

\* Line 310.
AutoCorrelationClearFlag ==
    /\ At("f_clear")
    /\ run' = [run EXCEPT !.pc = "f_autocorr",
                 !.fix16_error_occurred =
                     FlagBeforeAutoCorrelation(run.fix16_error_occurred)]
    /\ LocalStep /\ RunFrame

\* Line 311.
AutoCorrelation ==
    /\ At("f_autocorr")
    /\ run' = [run EXCEPT !.pc = "f_max",
                 !.fix16_error_occurred =
                     run.fix16_error_occurred \/ stats.autocorrelation_error,
                 !.autocorrelation_error_occurred =
                     CalculateAutoCorrelationReturns(
                         run.fix16_error_occurred \/ stats.autocorrelation_error)]
    /\ LocalStep /\ RunFrame

\* Line 312.
MaximumAutoCorrelation ==
    /\ At("f_max")
    /\ \E ub \in StepNegateOutcomes[stats] :
          run' = [run EXCEPT !.pc = "f_tests",
                    !.max_autocorrelation =
                        StepMaximumAutoCorrelation[stats][ub]]
    /\ LocalStep /\ RunFrame

\* Lines 325-350, on the variance histogramTestsFailed wrote.
FftTests ==
    /\ At("f_tests")
    /\ \E threshold \in {StepThreshold[run.variance]} :
          run' = [run EXCEPT !.pc = "verdict",
                    !.threshold = threshold.val,
                    !.fft_failed =
                        FftTestBits(run.max_bin, run.bandwidth,
                                    stats.psd_accumulator_error_occurred,
                                    run.max_autocorrelation, threshold.val,
                                    run.autocorrelation_error_occurred),
                    !.fix16_error_occurred =
                        run.fix16_error_occurred \/ threshold.err]
    /\ LocalStep /\ RunFrame

\* Lines 439-440 (the OR) and 444-454.
Verdict ==
    /\ At("verdict")
    /\ run' = [run EXCEPT !.pc = "after_run",
                 !.tests_failed = run.histogram_failed \cup run.fft_failed,
                 !.run_failed =
                     RunReturns(run.histogram_failed \cup run.fft_failed,
                                ignore_hwrng_failure)]
    /\ LocalStep /\ RunFrame

\* Lines 476-483; the run is over and what its statistics routines
\* reported is no longer of interest.
AfterRun ==
    /\ At("after_run")
    /\ IF ReturnsEarly(run.run_failed, test_statistics)
       THEN /\ ret' = -1
            /\ run' = Returned(run)
       ELSE /\ ret' = ret
            /\ run' = [run EXCEPT !.pc = "copy", !.call_failed = run.run_failed]
    /\ stats' = StatsIdle
    /\ UNCHANGED << samples, samples_consumed, adc_sample_buffer, buffer >>
    /\ RunFrame

\* Lines 492-506.
CopyAndReturn ==
    /\ At("copy")
    /\ buffer' = CopySamples(samples, samples_consumed)
    /\ samples_consumed' = samples_consumed + 16
    /\ ret' = ReturnAfterCopy(run.call_failed)
    /\ run' = Returned(run)
    /\ UNCHANGED << samples, adc_sample_buffer, stats >>
    /\ RunFrame

\* The steps of the call.
Program ==
    \/ CheckCursor \/ ClearAll \/ SuppressIdle \/ BeginFilling \/ PollFull
    \/ ResumeIdle \/ FilterAdcBuffer \/ IncrementHistogram \/ AccumulatePsd
    \/ HistogramClearFlag \/ Moments \/ SampleMomentError \/ EntropyClearFlag
    \/ Entropy \/ SampleEntropyError \/ HistogramTests \/ Bandwidth
    \/ AutoCorrelationClearFlag \/ AutoCorrelation \/ MaximumAutoCorrelation
    \/ FftTests \/ Verdict \/ AfterRun \/ CopyAndReturn

NextRun == CallEnter \/ Program \/ AdcCompletes
RunSpec == InitRun /\ [][NextRun]_vars

\* The ADC and the processor both keep going: a step of the call that can
\* be taken is taken, and a buffer being filled is completed.
RunFairSpec == RunSpec /\ WF_vars(Program) /\ WF_vars(AdcCompletes)

AcquisitionPcs == {"suppress", "begin", "wait", "resume", "filter"}
HistogramTestPcs ==
    {"h_clear", "moments", "h_sample", "e_clear", "entropy", "e_sample",
     "h_tests"}
FftTestPcs == {"f_bandwidth", "f_clear", "f_autocorr", "f_max", "f_tests"}
OutsideRunPcs == {"idle", "check", "clear", "after_run", "copy"}
PsdBlocks == SAMPLE_COUNT \div (FFT_SIZE * 2)

\* C12: in a qualification run the histogram, the PSD accumulator and the
\* cursor are cleared before the first acquisition; idle mode is suppressed
\* when the ADC is started and while it fills; firFilter reads the ADC
\* buffer only once it is full and idle mode is no longer suppressed; no
\* histogram increment or PSD accumulation happens before the last block is
\* filtered; all SAMPLE_COUNT increments precede the moments and all PSD
\* accumulations precede estimateBandwidth and calculateAutoCorrelation;
\* histogramTestsFailed is complete before fftTestsFailed starts, and the
\* autocorrelation threshold is computed from the variance it wrote; idle
\* mode is not suppressed once the run has returned.
C12_RunOrder ==
    /\ run.pc \in AcquisitionPcs =>
          /\ run.histogram_count = 0 /\ run.psd_count = 0
          /\ samples_consumed = 0
    /\ (run.pc = "begin" \/ run.adc_filling) => run.idle_suppressed
    /\ run.pc = "filter" =>
          /\ run.adc_full /\ ~run.adc_filling /\ ~run.idle_suppressed
    /\ (run.histogram_count > 0 \/ run.psd_count > 0) =>
          run.blocks_filtered = PoolBlocks
    /\ run.pc \in HistogramTestPcs =>
          run.histogram_count = SAMPLE_COUNT /\ ~run.histogram_done
    /\ run.pc \in FftTestPcs =>
          /\ run.psd_count = PsdBlocks
          /\ run.histogram_done /\ run.variance = stats.variance
    /\ run.pc = "verdict" =>
          run.threshold = fix16_mul(stats.variance, F16_AUTOCORR_THRESHOLD).val
    /\ run.pc \in OutsideRunPcs => ~run.idle_suppressed

\* The end of the second run in a row: everything acquired, counted and
\* tested in order.
C12_Witness ==
    /\ run.pc = "verdict" /\ run.flag_at_entry
    /\ run.acquisitions = PoolBlocks /\ run.blocks_filtered = PoolBlocks
    /\ run.histogram_count = SAMPLE_COUNT /\ run.psd_count = PsdBlocks
    /\ run.histogram_done /\ run.variance = 4 * fix16_one
    /\ run.threshold = 2 * fix16_one
    /\ ~run.idle_suppressed

\* C13: the sticky flag is clear when the moments, the entropy estimate
\* and the correlogram are computed, and is sampled right after the first
\* two; so, the statistics being within their limits, a flag left set
\* before the run sets no verdict bit, an overflow only in the moments
\* does not set bit 7, an overflow only in the entropy estimate sets none
\* of bits 0..3, and neither sets bit 6.
C13_FlagIsolation ==
    /\ run.pc \in {"moments", "entropy", "f_autocorr"} =>
          ~run.fix16_error_occurred
    /\ run.pc \in {"e_clear", "entropy", "e_sample", "h_tests"} =>
          run.moment_error_occurred = stats.moment_raised
    /\ run.pc = "h_tests" => run.entropy_error_occurred = stats.entropy_raised
    /\ run.pc = "after_run" =>
          /\ ~(stats.moment_raised \/ stats.entropy_raised
                   \/ stats.autocorrelation_error) =>
                run.tests_failed = {}
          /\ (stats.moment_raised /\ ~stats.entropy_raised) =>
                ~(7 \in run.tests_failed)
          /\ (stats.entropy_raised /\ ~stats.moment_raised) =>
                run.tests_failed \cap {0, 1, 2, 3} = {}
          /\ ~stats.autocorrelation_error => ~(6 \in run.tests_failed)

\* A run entered with the flag set, whose entropy estimate alone
\* overflows: bit 7 and nothing else.
C13_Witness ==
    /\ run.pc = "after_run" /\ run.flag_at_entry
    /\ stats.entropy_raised /\ ~stats.moment_raised
    /\ ~stats.autocorrelation_error
    /\ run.tests_failed = {7}

\* C14: with the ADC completing every buffer it was asked to fill, every
\* call of hardwareRandom32Bytes returns; a call that runs the
\* qualification performs exactly SAMPLE_COUNT / DECIMATED_SAMPLE_BUFFER_SIZE
\* acquisitions (and a call that does not, none); and as long as the ADC
\* does not signal a full buffer the call stays in the busy-wait, idle mode
\* suppressed, without returning or touching the caller's buffer.
C14_CallReturns ==
    /\ (run.pc = "check") ~> (run.pc = "idle" /\ run.returned)
    /\ [](run.pc \in {"idle", "after_run", "copy"} =>
             run.acquisitions = IF run.ran THEN PoolBlocks ELSE 0)
    /\ [][(run.pc = "wait" /\ ~run'.adc_full) =>
             /\ run'.pc = "wait" /\ run'.idle_suppressed /\ ~run'.returned
             /\ ret' = ret /\ buffer' = buffer]_vars

\* A call that ran the qualification and returned samples.
C14_Witness ==
    /\ run.pc = "idle" /\ run.returned /\ run.ran
    /\ run.acquisitions = PoolBlocks
    /\ ret >= 0 /\ samples_consumed = 16
=============================================================================
